---- MODULE Spec2Model ----
(***************************************************************************)
(* PyVantagePro: the session of a Davis Vantage Pro2 console over a byte   *)
(* link (pyvantagepro/device.py) and the checksum and date codecs it uses  *)
(* (pyvantagepro/parser.py).                                               *)
(*                                                                         *)
(* Bytes are the integers 0..255, byte strings and ASCII text are          *)
(* sequences of bytes.  The link is a receive buffer rx: what the device   *)
(* answers to a write is appended to rx when the write is made, and        *)
(* read(n) takes the first n bytes of rx, or all of rx when it holds fewer *)
(* (the read timed out).  A behaviour is one call of a session method: an  *)
(* action is one attempt of a retried method or one straight-line stretch  *)
(* of a method, and pc is the method and source line the call has reached. *)
(***************************************************************************)
EXTENDS Integers, Sequences, FiniteSets, TLC

VARIABLES
    rx,       \* the link's receive buffer: bytes delivered and not yet read
    log,      \* link events of the call so far: writes and reads, in order
    att,      \* the last attempt of a retried method: name, site, number, events, result
    pc,       \* where the call stands: "idle", "<method>:<line>", "done"
    call,     \* the method called and its arguments
    tries,    \* attempts of the retried method at pc that have failed
    val,      \* the value the last completed step returned
    outcome,  \* how the call ended: the value returned or the exception raised
    cache,    \* the session's cached properties (name -> <<value>>, <<>> when unset)
    RevA,     \* the session's RevA flag
    RevB      \* the session's RevB flag

vars == <<rx, log, att, pc, call, tries, val, outcome, cache, RevA, RevB>>

Min(a, b) == IF a < b THEN a ELSE b

(* ---------------------------------------------------------------------- *)
(* Bit operations on naturals                                              *)
(* ---------------------------------------------------------------------- *)
\* exclusive-or and conjunction of two naturals, bit by bit
RECURSIVE XorBits(_, _)
XorBits(a, b) ==
    IF a = 0 THEN b
    ELSE IF b = 0 THEN a
    ELSE ((a + b) % 2) + 2 * XorBits(a \div 2, b \div 2)

RECURSIVE AndBits(_, _)
AndBits(a, b) ==
    IF a = 0 \/ b = 0 THEN 0
    ELSE ((a % 2) * (b % 2)) + 2 * AndBits(a \div 2, b \div 2)

\* the same, four bits at a time through tables of the sixteen by sixteen cases
XorNibble == [a \in 0..15 |-> [b \in 0..15 |-> XorBits(a, b)]]
AndNibble == [a \in 0..15 |-> [b \in 0..15 |-> AndBits(a, b)]]

RECURSIVE Xor(_, _)
Xor(a, b) ==
    IF a < 16 /\ b < 16 THEN XorNibble[a][b]
    ELSE XorNibble[a % 16][b % 16] + 16 * Xor(a \div 16, b \div 16)

RECURSIVE And(_, _)
And(a, b) ==
    IF a < 16 /\ b < 16 THEN AndNibble[a][b]
    ELSE AndNibble[a % 16][b % 16] + 16 * And(a \div 16, b \div 16)

Shr(a, n) == a \div (2 ^ n)

(* ---------------------------------------------------------------------- *)
(* VantageProCRC                                                           *)
(* ---------------------------------------------------------------------- *)
CRC_TABLE == <<
    0, 4129, 8258, 12387, 16516, 20645, 24774, 28903, 33032, 37161, 41290, 45419,
    49548, 53677, 57806, 61935, 4657, 528, 12915, 8786, 21173, 17044, 29431, 25302,
    37689, 33560, 45947, 41818, 54205, 50076, 62463, 58334, 9314, 13379, 1056, 5121,
    25830, 29895, 17572, 21637, 42346, 46411, 34088, 38153, 58862, 62927, 50604, 54669,
    13907, 9842, 5649, 1584, 30423, 26358, 22165, 18100, 46939, 42874, 38681, 34616,
    63455, 59390, 55197, 51132, 18628, 22757, 26758, 30887, 2112, 6241, 10242, 14371,
    51660, 55789, 59790, 63919, 35144, 39273, 43274, 47403, 23285, 19156, 31415, 27286,
    6769, 2640, 14899, 10770, 56317, 52188, 64447, 60318, 39801, 35672, 47931, 43802,
    27814, 31879, 19684, 23749, 11298, 15363, 3168, 7233, 60846, 64911, 52716, 56781,
    44330, 48395, 36200, 40265, 32407, 28342, 24277, 20212, 15891, 11826, 7761, 3696,
    65439, 61374, 57309, 53244, 48923, 44858, 40793, 36728, 37256, 33193, 45514, 41451,
    53516, 49453, 61774, 57711, 4224, 161, 12482, 8419, 20484, 16421, 28742, 24679,
    33721, 37784, 41979, 46042, 49981, 54044, 58239, 62302, 689, 4752, 8947, 13010,
    16949, 21012, 25207, 29270, 46570, 42443, 38312, 34185, 62830, 58703, 54572, 50445,
    13538, 9411, 5280, 1153, 29798, 25671, 21540, 17413, 42971, 47098, 34713, 38840,
    59231, 63358, 50973, 55100, 9939, 14066, 1681, 5808, 26199, 30326, 17941, 22068,
    55628, 51565, 63758, 59695, 39368, 35305, 47498, 43435, 22596, 18533, 30726, 26663,
    6336, 2273, 14466, 10403, 52093, 56156, 60223, 64286, 35833, 39896, 43963, 48026,
    19061, 23124, 27191, 31254, 2801, 6864, 10931, 14994, 64814, 60687, 56684, 52557,
    48554, 44427, 40424, 36297, 31782, 27655, 23652, 19525, 15522, 11395, 7392, 3265,
    61215, 65342, 53085, 57212, 44955, 49082, 36825, 40952, 28183, 32310, 20053, 24180,
    11923, 16050, 3793, 7920
    >>

\* one round of the loop of VantageProCRC.checksum
crc_step(crc, byte) ==
    LET upper_crc == Shr(crc, 8)
        table_index == Xor(upper_crc, byte)
        table_value == CRC_TABLE[table_index + 1]
        lower_crc == And(crc, 255)
        shifted_lower_crc == lower_crc * 256
    IN  Xor(table_value, shifted_lower_crc)

\* the loop over data[lo..hi], in order, starting from crc
RECURSIVE crc_loop(_, _, _, _)
crc_loop(crc, data, lo, hi) ==
    IF lo > hi THEN crc
    ELSE IF lo = hi THEN crc_step(crc, data[lo])
    ELSE LET mid == (lo + hi) \div 2
         IN  \* the left half is evaluated once, then the right half from it
             CHOOSE r \in { crc_loop(left, data, mid + 1, hi) :
                               left \in { crc_loop(crc, data, lo, mid) } } : TRUE

checksum(data) == CHOOSE r \in { crc_loop(0, d, 1, Len(d)) : d \in { data } } : TRUE

\* struct.pack(b'>H', v): two bytes, high byte first
pack_BE_H(v) == << (v \div 256) % 256, v % 256 >>

data_with_checksum_native(data) == data \o << checksum(data) % 256, checksum(data) \div 256 >>

data_with_checksum(data) == data \o pack_BE_H(checksum(data))

check(data) == Len(data) # 0 /\ checksum(data) = 0

(* ---------------------------------------------------------------------- *)
(* Wire constants of VantagePro2 and the text of its commands (ASCII)      *)
(* ---------------------------------------------------------------------- *)
WAKE_STR == <<10>>
WAKE_ACK == <<10, 13>>
ACK == <<6>>
NACK == <<33>>
CANCEL == <<24>>
ESC == <<27>>
OK == <<10, 13, 79, 75, 10, 13>>

GETTIME == <<71, 69, 84, 84, 73, 77, 69>>
SETTIME == <<83, 69, 84, 84, 73, 77, 69>>
NVER == <<78, 86, 69, 82>>
RXCHECK == <<82, 88, 67, 72, 69, 67, 75>>
LOOP_1 == <<76, 79, 79, 80, 32, 49>>
DMPAFT == <<68, 77, 80, 65, 70, 84>>

\* the EEPROM addresses the session reads: "2D" (archive period), "14" (timezone)
ADDR_2D == <<50, 68>>
ADDR_14 == <<49, 52>>

\* Python's {n:d}: the decimal digits of n >= 0
RECURSIVE Decimal(_)
Decimal(n) ==
    IF n < 10 THEN <<48 + n>> ELSE Decimal(n \div 10) \o <<48 + (n % 10)>>

\* Python's {size:02d}: decimal, zero-padded to two digits
Format02d(n) == IF n < 10 THEN <<48>> \o Decimal(n) ELSE Decimal(n)

\* f"EEBRD {hex_address} {size:02d}\n"
EEBRD(hex_address, size) ==
    <<69, 69, 66, 82, 68, 32>> \o hex_address \o <<32>> \o Format02d(size) \o <<10>>

\* what send() is given: a byte array, or an ASCII command
Bytes(d) == [bytes |-> TRUE, d |-> d]
Text(d) == [bytes |-> FALSE, d |-> d]
is_bytes(data) == data.bytes

\* an optional value: <<>> is Python's None, <<v>> is the value v
Some(v) == <<v>>
IsNone(o) == o = <<>>

(* ---------------------------------------------------------------------- *)
(* The link.  A link value is the receive buffer and the events so far.    *)
(* ---------------------------------------------------------------------- *)
Ev(k, n, d) == [k |-> k, n |-> n, d |-> d]

\* link.write(data); reply is what the device sends back on receiving it
link_write(l, data, reply) ==
    [rx |-> l.rx \o reply, ev |-> Append(l.ev, Ev("w", Len(data), data))]

\* link.read(n): up to n bytes, fewer when the buffer runs dry (timeout)
link_read(l, n) ==
    LET k == Min(n, Len(l.rx))
    IN  [rx |-> SubSeq(l.rx, k + 1, Len(l.rx)),
         ev |-> Append(l.ev, Ev("r", n, SubSeq(l.rx, 1, k)))]

\* the bytes the last read returned
\* read() with no size: what the link holds
link_read_all(l) ==
    [rx |-> <<>>, ev |-> l.ev \o <<Ev("r", -1, l.rx)>>]

got(l) == l.ev[Len(l.ev)].d

\* how a method body ends: it returns v, or raises the exception err
Return(l, v) == [rx |-> l.rx, ev |-> l.ev, err |-> "none", val |-> v]
Raise(l, err) == [rx |-> l.rx, ev |-> l.ev, err |-> err, val |-> <<>>]

(* ---------------------------------------------------------------------- *)
(* DataParser and the dump parsers (parser.py)                             *)
(* ---------------------------------------------------------------------- *)
\* struct, '=' order: native byte order (little-endian), standard sizes
unpack_H(b) == b[1] + 256 * b[2]

DMP_HEADER_SIZE == 6
DMP_PAGE_SIZE == 267
RECORDS_SIZE == 260
RECORD_SIZE == 52

\* the whole frame checked whether or not the schema has a "CRC" field
DataParser_crc_always(data, size, crc) ==
    [crc_error |-> ~check(data),
     err |-> IF Len(data) < size THEN "struct.error" ELSE "none",
     raw_bytes |-> data]

\* DataParser.__init__ on a schema of `size` bytes, crc telling whether it
\* has a "CRC" field: crc_error from the whole frame when it has, then
\* struct.unpack_from, which raises struct.error when the buffer is shorter
\* than the schema
DataParser(data, size, crc) ==
    [crc_error |-> crc /\ ~check(data),
     err |-> IF Len(data) < size THEN "struct.error" ELSE "none",
     raw_bytes |-> data]

\* DmpHeaderParser: Pages 'H', Offset 'H', CRC 'H'
DmpHeaderParser(data) ==
    LET p == DataParser(data, DMP_HEADER_SIZE, TRUE)
    IN  IF p.err # "none" THEN p
        ELSE [crc_error |-> p.crc_error, err |-> "none", raw_bytes |-> data,
              Pages |-> unpack_H(SubSeq(data, 1, 2)),
              Offset |-> unpack_H(SubSeq(data, 3, 4))]

\* DmpPageParser: Index 'B', Records '260s', unused '4B', CRC 'H'
DmpPageParser(data) ==
    LET p == DataParser(data, DMP_PAGE_SIZE, TRUE)
    IN  IF p.err # "none" THEN p
        ELSE [crc_error |-> p.crc_error, err |-> "none", raw_bytes |-> data,
              Index |-> data[1],
              Records |-> SubSeq(data, 2, 1 + RECORDS_SIZE)]

(* ---------------------------------------------------------------------- *)
(* The retried methods of VantagePro2: one attempt each                    *)
(* ---------------------------------------------------------------------- *)
\* @retry(tries=..): the number of attempts of each retried method
WakeUpTriesOneLess == 3 - 1
WakeUpTries == 3
SendTries == 3
EepromTries == 3
DumpPageTries == 3

\* wake_up without the extra one-byte read on a mismatch
wake_up_no_resync(l, reply) ==
    LET l1 == link_write(l, WAKE_STR, reply)
        l2 == link_read(l1, Len(WAKE_ACK))
    IN  IF WAKE_ACK = got(l2) THEN Return(l2, <<>>)
        ELSE Raise(l2, "NoDeviceException")

wake_up(l, reply) ==
    LET wait_ack == WAKE_ACK
        l1 == link_write(l, WAKE_STR, reply)
        l2 == link_read(l1, Len(wait_ack))
        ack == got(l2)
    IN  IF wait_ack = ack THEN Return(l2, <<>>)
        ELSE Raise(link_read(l2, 1), "NoDeviceException")

\* send that appends the line-feed to byte arrays too
send_lf_always(l, data, wait_ack, reply) ==
    LET l1 == link_write(l, data.d \o <<10>>, reply)
    IN  IF IsNone(wait_ack) THEN Return(l1, <<>>)
        ELSE LET l2 == link_read(l1, Len(wait_ack[1]))
             IN  IF wait_ack[1] = got(l2) THEN Return(l2, <<>>)
                 ELSE Raise(l2, "BadAckException")

send(l, data, wait_ack, reply) ==
    LET l1 == IF is_bytes(data) THEN link_write(l, data.d, reply)
              ELSE link_write(l, data.d \o <<10>>, reply)
    IN  IF IsNone(wait_ack) THEN Return(l1, <<>>)
        ELSE LET l2 == link_read(l1, Len(wait_ack[1]))
                 ack == got(l2)
             IN  IF wait_ack[1] = ack THEN Return(l2, <<>>)
                 ELSE Raise(l2, "BadAckException")

\* (data[:-2] is all but the last two bytes, empty when there are fewer)
read_from_eeprom(l, hex_address, size, reply) ==
    LET l1 == link_write(l, EEBRD(hex_address, size), reply)
        l2 == link_read(l1, Len(ACK))
        ack == got(l2)
    IN  IF ACK = ack
        THEN LET l3 == link_read(l2, size + 2)
                 data == got(l3)
             IN  IF check(data)
                 THEN Return(l3, IF Len(data) <= 2 THEN <<>>
                                 ELSE SubSeq(data, 1, Len(data) - 2))
                 ELSE Raise(l3, "BadCRCException")
        ELSE Raise(l2, "BadAckException")

\* a page with a bad CRC refused without a NACK
read_dump_page_silent_crc(l, reply) ==
    LET l1 == link_read(l, DMP_PAGE_SIZE)
        raw_dump == got(l1)
    IN  IF Len(raw_dump) # DMP_PAGE_SIZE
        THEN Raise(link_write(l1, NACK, reply), "BadDataException")
        ELSE LET dump == DmpPageParser(raw_dump)
             IN  IF dump.crc_error
                 THEN Raise(l1, "BadCRCException")
                 ELSE Return(l1, dump)

read_dump_page(l, reply) ==
    LET l1 == link_read(l, DMP_PAGE_SIZE)
        raw_dump == got(l1)
    IN  IF Len(raw_dump) # DMP_PAGE_SIZE
        THEN Raise(link_write(l1, NACK, reply), "BadDataException")
        ELSE LET dump == DmpPageParser(raw_dump)
             IN  IF dump.crc_error
                 THEN Raise(link_write(l1, NACK, reply), "BadCRCException")
                 ELSE Return(l1, dump)

(* ---------------------------------------------------------------------- *)
(* datetime: a record of year, month, day, hour, minute, second            *)
(* ---------------------------------------------------------------------- *)
DT(y, mo, d, h, mi, s) ==
    [year |-> y, month |-> mo, day |-> d, hour |-> h, minute |-> mi, second |-> s,
     microsecond |-> 0]

DaysIn(y, mo) ==
    IF mo = 2
    THEN (IF (y % 4 = 0 /\ y % 100 # 0) \/ y % 400 = 0 THEN 29 ELSE 28)
    ELSE IF mo \in {4, 6, 9, 11} THEN 30 ELSE 31

\* whether datetime(y, mo, d, h, mi, s) is accepted (else it raises ValueError)
ValidDatetime(y, mo, d, h, mi, s) ==
    /\ y \in 1..9999 /\ mo \in 1..12 /\ d >= 1 /\ d <= DaysIn(y, mo)
    /\ h \in 0..23 /\ mi \in 0..59 /\ s \in 0..59

\* the order of datetimes: field by field, the year first
RECURSIVE TupleLt(_, _)
TupleLt(a, b) ==
    IF a = <<>> \/ b = <<>> THEN FALSE
    ELSE Head(a) < Head(b) \/ (Head(a) = Head(b) /\ TupleLt(Tail(a), Tail(b)))

DtLt(a, b) ==
    TupleLt(<< a.year, a.month, a.day, a.hour, a.minute, a.second, a.microsecond >>,
            << b.year, b.month, b.day, b.hour, b.minute, b.second, b.microsecond >>)
DtLe(a, b) == ~DtLt(b, a)

(* ---------------------------------------------------------------------- *)
(* Date and time codecs (parser.py)                                        *)
(* ---------------------------------------------------------------------- *)
\* struct.pack(b'H', v), native order: low byte first
pack_H(v) == << v % 256, (v \div 256) % 256 >>

pack_dmp_date_time_month_16(d) ==
    LET vpdate == d.day + d.month * 16 + (d.year - 2000) * 512
        vptime == 100 * d.hour + d.minute
        data == pack_H(vpdate) \o pack_H(vptime)
    IN  IF vpdate \in 0..65535 /\ vptime \in 0..65535
        THEN [err |-> "none", val |-> data_with_checksum(data)]
        ELSE [err |-> "struct.error", val |-> <<>>]

pack_dmp_date_time(d) ==
    LET vpdate == d.day + d.month * 32 + (d.year - 2000) * 512
        vptime == 100 * d.hour + d.minute
        data == pack_H(vpdate) \o pack_H(vptime)
    IN  IF vpdate \in 0..65535 /\ vptime \in 0..65535
        THEN [err |-> "none", val |-> data_with_checksum(data)]
        ELSE [err |-> "struct.error", val |-> <<>>]

unpack_dmp_date_time_narrow_month(date, time) ==
    IF date # 65535 /\ time # 65535
    THEN LET day == And(date, 31)
             month == And(Shr(date, 5), 7)
             year == And(Shr(date, 9), 127) + 2000
             hour == time \div 100
             min_ == time % 100
         IN  IF ValidDatetime(year, month, day, hour, min_, 0)
             THEN [err |-> "none", val |-> Some(DT(year, month, day, hour, min_, 0))]
             ELSE [err |-> "ValueError", val |-> <<>>]
    ELSE [err |-> "none", val |-> <<>>]

unpack_dmp_date_time_both_sentinel(date, time) ==
    IF date # 65535 \/ time # 65535
    THEN LET day == And(date, 31)
             month == And(Shr(date, 5), 15)
             year == And(Shr(date, 9), 127) + 2000
             hour == time \div 100
             min_ == time % 100
         IN  IF ValidDatetime(year, month, day, hour, min_, 0)
             THEN [err |-> "none", val |-> Some(DT(year, month, day, hour, min_, 0))]
             ELSE [err |-> "ValueError", val |-> <<>>]
    ELSE [err |-> "none", val |-> <<>>]

unpack_dmp_date_time(date, time) ==
    IF date # 65535 /\ time # 65535
    THEN LET day == And(date, 31)
             month == And(Shr(date, 5), 15)
             year == And(Shr(date, 9), 127) + 2000
             hour == time \div 100
             min_ == time % 100
         IN  IF ValidDatetime(year, month, day, hour, min_, 0)
             THEN [err |-> "none", val |-> Some(DT(year, month, day, hour, min_, 0))]
             ELSE [err |-> "ValueError", val |-> <<>>]
    ELSE [err |-> "none", val |-> <<>>]

pack_datetime_from_2000(dtime) ==
    LET data == << dtime.second, dtime.minute, dtime.hour, dtime.day,
                   dtime.month, dtime.year - 2000 >>
    IN  IF dtime.year - 2000 \in 0..255
        THEN [err |-> "none", val |-> data_with_checksum(data)]
        ELSE [err |-> "struct.error", val |-> <<>>]

pack_datetime(dtime) ==
    LET data == << dtime.second, dtime.minute, dtime.hour, dtime.day,
                   dtime.month, dtime.year - 1900 >>
    IN  IF dtime.year - 1900 \in 0..255
        THEN [err |-> "none", val |-> data_with_checksum(data)]
        ELSE [err |-> "struct.error", val |-> <<>>]

unpack_datetime(data) ==
    IF Len(data) < 6 THEN [err |-> "struct.error", val |-> <<>>]
    ELSE IF ValidDatetime(data[6] + 1900, data[5], data[4], data[3], data[2], data[1])
    THEN [err |-> "none",
          val |-> Some(DT(data[6] + 1900, data[5], data[4], data[3], data[2], data[1]))]
    ELSE [err |-> "ValueError", val |-> <<>>]

(* ---------------------------------------------------------------------- *)
(* Archive records                                                         *)
(* ---------------------------------------------------------------------- *)
\* ArchiveDataParserRevB: the schema has no "CRC" field; DateStamp 'H' and
\* TimeStamp 'H' lead the 52 bytes and give the record's Datetime
ArchiveDataParserRevB(data) ==
    IF Len(data) < RECORD_SIZE
    THEN [err |-> "struct.error", crc_error |-> FALSE, Datetime |-> <<>>,
          raw_bytes |-> data]
    ELSE LET t == unpack_dmp_date_time(unpack_H(SubSeq(data, 1, 2)),
                                       unpack_H(SubSeq(data, 3, 4)))
         IN  [err |-> t.err,
              crc_error |-> DataParser(data, RECORD_SIZE, FALSE).crc_error,
              Datetime |-> t.val, raw_bytes |-> data]

\* _parse_record: the record when it is dated within (start_date, stop_date]
parse_record(raw_record, start_date, stop_date) ==
    LET record == ArchiveDataParserRevB(raw_record)
        r_time == record.Datetime
    IN  IF record.err # "none" THEN [err |-> record.err, val |-> <<>>]
        ELSE IF IsNone(r_time) THEN [err |-> "none", val |-> <<>>]
        ELSE IF ~(DtLt(start_date, r_time[1]) /\ DtLe(r_time[1], stop_date))
        THEN [err |-> "none", val |-> <<>>]
        ELSE [err |-> "none", val |-> Some(record)]

LOOP_SIZE == 99

\* LoopDataParserRevB: of the LOOP schema, the fields Barometer ('H' at
\* offset 7, /1000) and TempIn ('h' at offset 9, /10), kept as a numerator
\* and the divisor; Datetime is the capture time handed in.  struct 'h'
\* is a signed 16-bit integer, low byte first
LoopDataParserRevB(data, dtime) ==
    IF Len(data) < LOOP_SIZE
    THEN [err |-> "struct.error", val |-> <<>>]
    ELSE LET unpack_h(b) ==
                 LET u == unpack_H(b) IN IF u >= 32768 THEN u - 65536 ELSE u
         IN
         [err |-> "none",
          val |-> [crc_error |-> DataParser(data, LOOP_SIZE, TRUE).crc_error,
                   raw_bytes |-> data,
                   Datetime |-> Some(dtime),
                   Barometer |-> <<unpack_H(SubSeq(data, 8, 9)), 1000>>,
                   TempIn |-> <<unpack_h(SubSeq(data, 10, 11)), 10>>]]

\* the frame parsed whatever the revision
get_current_data_any_rev(current_data, revB, now) ==
    LoopDataParserRevB(current_data, now)

\* get_current_data, lines 174-177
get_current_data(current_data, revB, now) ==
    IF revB THEN LoopDataParserRevB(current_data, now)
    ELSE [err |-> "NotImplementedError", val |-> <<>>]

(* ---------------------------------------------------------------------- *)
(* get_archives: the download after the handshake (device.py 248-267) and  *)
(* the aggregation of what the generator yields (device.py 187-195)        *)
(* ---------------------------------------------------------------------- *)
\* _process_page is a generator function: the call at line 261 builds a
\* generator object that nothing iterates, so none of its body runs
process_page(l, page_number, start_date, stop_date) == l

\* for i in range(header.number_of_pages): self._process_page(i, ...)
RECURSIVE pages_loop(_, _, _, _, _)
pages_loop(l, i, number_of_pages, start_date, stop_date) ==
    IF i >= number_of_pages THEN l
    ELSE pages_loop(process_page(l, i, start_date, stop_date), i + 1,
                    number_of_pages, start_date, stop_date)

\* the header acknowledged before its CRC is looked at
archives_ack_first(l, start_date, stop_date, cancel_reply, ack_reply) ==
    LET l1 == link_read(l, DMP_HEADER_SIZE)
        header == DmpHeaderParser(got(l1))
    IN  IF header.err # "none" THEN Raise(l1, header.err)
        ELSE LET l2 == link_write(l1, ACK, ack_reply)
             IN  IF header.crc_error
                 THEN Raise(link_write(l2, CANCEL, cancel_reply), "BadCRCException")
                 ELSE Return(pages_loop(l2, 0, header.Pages, start_date, stop_date), <<>>)

\* lines 249-267: header, CANCEL or ACK, the page loop; the function has no
\* yield, so it returns None.  reply is the device's answer to CANCEL or ACK
archives_from_header(l, start_date, stop_date, cancel_reply, ack_reply) ==
    LET l1 == link_read(l, DMP_HEADER_SIZE)
        header_data == got(l1)
        header == DmpHeaderParser(header_data)
    IN  IF header.err # "none" THEN Raise(l1, header.err)
        ELSE IF header.crc_error
        THEN Raise(link_write(l1, CANCEL, cancel_reply), "BadCRCException")
        ELSE LET l2 == link_write(l1, ACK, ack_reply)
             IN  Return(pages_loop(l2, 0, header.Pages, start_date, stop_date), <<>>)

\* the answer to the start date read and not looked at
archives_send_date_unchecked(l, start_date, reply) ==
    LET packed_date == pack_dmp_date_time(start_date)
    IN  IF packed_date.err # "none" THEN Raise(l, packed_date.err)
        ELSE Return(link_read(link_write(l, packed_date.val, reply), Len(ACK)), <<>>)

\* lines 240-246: the packed start date is written and one ack byte read
archives_send_date(l, start_date, reply) ==
    LET packed_date == pack_dmp_date_time(start_date)
    IN  IF packed_date.err # "none" THEN Raise(l, packed_date.err)
        ELSE LET l1 == link_write(l, packed_date.val, reply)
                 l2 == link_read(l1, Len(ACK))
             IN  IF got(l2) # ACK THEN Raise(l2, "BadAckException")
                 ELSE Return(l2, <<>>)

\* the items get_archives keeps: the first of each Datetime, in order
RECURSIVE dedup(_, _)
dedup(items, dates) ==
    IF items = <<>> THEN <<>>
    ELSE IF Head(items).Datetime \in dates THEN dedup(Tail(items), dates)
    ELSE <<Head(items)>> \o dedup(Tail(items), dates \cup {Head(items).Datetime})

\* ListDict.sorted_by('Datetime'): ascending by Datetime, stable
RECURSIVE sorted_by_Datetime(_)
sorted_by_Datetime(items) ==
    IF items = <<>> THEN <<>>
    ELSE LET least == CHOOSE i \in 1..Len(items) :
                         \A j \in 1..Len(items) :
                            \/ DtLt(items[i].Datetime[1], items[j].Datetime[1])
                            \/ (items[i].Datetime = items[j].Datetime /\ i <= j)
             rest == [k \in 1..(Len(items) - 1) |->
                         IF k < least THEN items[k] ELSE items[k + 1]]
         IN  <<items[least]>> \o sorted_by_Datetime(rest)

\* get_archives, lines 187-195, given what _get_archives_generator returned:
\* generator is <<>> (None) or <<items>>; iterating None raises TypeError
get_archives(l, generator) ==
    IF IsNone(generator) THEN Raise(l, "TypeError")
    ELSE Return(l, sorted_by_Datetime(dedup(generator[1], {})))

(* ---------------------------------------------------------------------- *)
(* Session properties                                                      *)
(* ---------------------------------------------------------------------- *)
\* struct.unpack(b'B', data)[0]
archive_period(data) ==
    IF Len(data) # 1 THEN [err |-> "struct.error", val |-> <<>>]
    ELSE [err |-> "none", val |-> data[1]]

\* struct.unpack(b'HB', data), then "GMT+<offset>" or "Localtime", the
\* offset as f"{offset / 100:.2f}"
timezone(data) ==
    IF Len(data) # 3 THEN [err |-> "struct.error", val |-> <<>>]
    ELSE LET offset == unpack_H(SubSeq(data, 1, 2))
             gmt == data[3]
         IN  IF gmt # 0
             THEN [err |-> "none", val |-> <<71, 77, 84, 43>> \o Decimal(offset \div 100)
                                        \o <<46>> \o Format02d(offset % 100)]
             ELSE [err |-> "none",
                   val |-> <<76, 111, 99, 97, 108, 116, 105, 109, 101>>]

\* str.strip('\n\r'): line-feeds and carriage returns off both ends
RECURSIVE lstrip(_)
lstrip(data) ==
    IF data # <<>> /\ Head(data) \in {10, 13} THEN lstrip(Tail(data)) ELSE data

RECURSIVE rstrip(_)
rstrip(data) ==
    IF data # <<>> /\ data[Len(data)] \in {10, 13}
    THEN rstrip(SubSeq(data, 1, Len(data) - 1)) ELSE data

strip(data) == rstrip(lstrip(data))

\* str.split(' '): the pieces between single spaces, empty ones included
RECURSIVE split(_, _)
split(data, piece) ==
    IF data = <<>> THEN <<piece>>
    ELSE IF Head(data) = 32 THEN <<piece>> \o split(Tail(data), <<>>)
    ELSE split(Tail(data), Append(piece, Head(data)))

\* int(text) of unsigned decimal text; <<>> stands for ValueError
RECURSIVE int(_, _)
int(text, acc) ==
    IF text = <<>> THEN <<acc>>
    ELSE IF Head(text) \in 48..57 THEN int(Tail(text), 10 * acc + Head(text) - 48)
    ELSE <<>>

\* firmware_version, line 298
firmware_version(data) == [err |-> "none", val |-> strip(data)]

\* diagnostics, lines 305-309
diagnostics(raw) ==
    LET data == split(strip(raw), <<>>)
        ints == [i \in 1..Len(data) |-> IF data[i] = <<>> THEN <<>> ELSE int(data[i], 0)]
    IN  IF \E i \in 1..Len(ints) : ints[i] = <<>>
        THEN [err |-> "ValueError", val |-> <<>>]
        ELSE IF Len(ints) < 5 THEN [err |-> "IndexError", val |-> <<>>]
        ELSE [err |-> "none",
              val |-> [total_received |-> ints[1][1], total_missed |-> ints[2][1],
                       resyn |-> ints[3][1], max_received |-> ints[4][1],
                       crc_errors |-> ints[5][1]]]

\* a cache that keeps whatever the body ended with, a failure too
cached_property_always(c, name, r) == [c EXCEPT ![name] = <<r.val>>]

\* @cached_property: the cache after the property's body ended with r
cached_property(c, name, r) ==
    IF r.err = "none" THEN [c EXCEPT ![name] = <<r.val>>] ELSE c

\* the cutoff date itself taken for the old format
check_revision_cutoff_old(firmware_date) ==
    IF firmware_date[1] * 10000 + firmware_date[2] * 100 + firmware_date[3] <= 20020424
    THEN [RevA |-> TRUE, RevB |-> FALSE]
    ELSE [RevA |-> FALSE, RevB |-> TRUE]

\* _check_revision: RevA and RevB from the firmware date (year, month, day)
check_revision(firmware_date) ==
    LET date == <<2002, 4, 24>>
        before == \/ firmware_date[1] < date[1]
                  \/ (firmware_date[1] = date[1] /\ firmware_date[2] < date[2])
                  \/ (firmware_date[1] = date[1] /\ firmware_date[2] = date[2]
                      /\ firmware_date[3] < date[3])
    IN  IF before THEN [RevA |-> TRUE, RevB |-> FALSE]
        ELSE [RevA |-> FALSE, RevB |-> TRUE]

\* @retry: what the wrapper does after an attempt, `failed` attempts having
\* failed before it: hand back the result, raise the last error, or go again
retry(err, failed, maxtries) ==
    IF err = "none" THEN "return"
    ELSE IF failed + 1 >= maxtries THEN "raise"
    ELSE "again"

(* ---------------------------------------------------------------------- *)
(* Bounds, inputs and the device at the other end of the link              *)
(* ---------------------------------------------------------------------- *)
\* stray bytes the receive buffer may hold when the call starts
MaxStray == 1
\* the most pages a dump header announces
MaxPages == 2

Zeros(n) == [i \in 1..n |-> 0]

InitRx == { Zeros(n) : n \in 0..MaxStray }

\* a frame with its last byte changed: the CRC no longer matches
Corrupt(frame) ==
    [i \in 1..Len(frame) |->
        IF i = Len(frame) THEN (frame[i] + 1) % 256 ELSE frame[i]]

\* the arguments of the calls
StartArg == DT(2023, 6, 15, 10, 7, 0)
StopArg == DT(2023, 6, 15, 12, 0, 0)
NowArg == DT(2023, 6, 15, 13, 0, 0)
TimeArg == DT(2023, 6, 15, 10, 7, 30)
FirmwareDates == { <<2001, 12, 31>>, <<2002, 4, 23>>, <<2002, 4, 24>> }
EepromArgs == { [hex_address |-> ADDR_2D, size |-> 1],
                [hex_address |-> ADDR_14, size |-> 3] }
SendArgs == { [data |-> data, wait_ack |-> wait_ack] :
                data \in { [bytes |-> FALSE, d |-> DMPAFT],
                           [bytes |-> TRUE, d |-> <<1, 2>>] },
                wait_ack \in { <<>>, <<ACK>>, <<OK>> } }
SettimeArgs == [dtime |-> TimeArg]
GetCurrentDataArgs == [now |-> NowArg]
\* start_date is given or left to its default; start_date and stop_date are
\* the method's local variables, start_arg and stop_arg what the caller gave
GetArchivesArgs ==
    { [start_arg |-> start_date, stop_arg |-> <<StopArg>>, now |-> NowArg,
       start_date |-> start_date, stop_date |-> <<StopArg>>] :
        start_date \in { <<>>, <<StartArg>> } }

\* what the EEPROM holds at the addresses read
EepromData(size) ==
    IF size = 1 THEN { <<5>> } ELSE { <<44, 1, 1>>, <<0, 0, 0>> }

\* an archive record: DateStamp and TimeStamp, then 48 bytes of readings
Stamped(date, time) == pack_H(date) \o pack_H(time) \o Zeros(RECORD_SIZE - 4)
RecordAt(t) ==
    Stamped(t.day + t.month * 32 + (t.year - 2000) * 512, 100 * t.hour + t.minute)
BlankRecord == Stamped(65535, 65535)

\* a dump page: index, five records, four unused bytes, CRC
Page(index, r1, r2, r3, r4, r5) ==
    data_with_checksum(<<index>> \o r1 \o r2 \o r3 \o r4 \o r5 \o Zeros(4))

\* page 1 holds a record in range, a second of the same date with another
\* reading, one at the rounded start, one past the stop and a blank; later
\* pages hold one earlier record in range each
DumpPages ==
    [i \in 1..(MaxPages + 1) |->
        IF i = 1
        THEN Page(0, RecordAt(DT(2023, 6, 15, 11, 30, 0)),
                     [RecordAt(DT(2023, 6, 15, 11, 30, 0)) EXCEPT ![5] = 1],
                     RecordAt(DT(2023, 6, 15, 10, 5, 0)),
                     RecordAt(DT(2023, 6, 15, 12, 5, 0)),
                     BlankRecord)
        ELSE Page(i - 1, RecordAt(DT(2023, 6, 15, 11, 30 - 5 * i, 0)),
                     BlankRecord, BlankRecord, BlankRecord, BlankRecord)]

RECURSIVE PageStream(_)
PageStream(n) == IF n = 0 THEN <<>> ELSE PageStream(n - 1) \o DumpPages[n]

BadCrcPage == Corrupt(DumpPages[1])
ShortPage == SubSeq(DumpPages[1], 1, 100)

PageStreams == { PageStream(n) : n \in 0..MaxPages } \cup { BadCrcPage, ShortPage }

\* a dump header: Pages 'H', Offset 'H', CRC
Header(pages, offset) == data_with_checksum(pack_H(pages) \o pack_H(offset))
Headers ==
    { Header(p, 0) : p \in 0..MaxPages }
        \cup { Corrupt(Header(1, 0)), SubSeq(Header(1, 0), 1, 3) }

LF == <<10>>

\* a LOOP frame: barometer 30000, inside temperature -5, CRC at the end
LoopFrame ==
    data_with_checksum(<<76, 79, 79, 0, 0, 0, 0, 48, 117, 251, 255>>
                           \o Zeros(LOOP_SIZE - 13))

\* the console's answers to NVER ("1.90") and to RXCHECK
VersionText == <<49, 46, 57, 48, 10, 13>>
DiagnosticsTexts ==
    { <<49, 50, 32, 51, 32, 48, 32, 57, 32, 49, 10, 13>>,
      <<49, 50, 32, 51, 10, 13>>,
      <<32, 49, 50, 32, 51, 32, 48, 32, 57, 32, 49, 10, 13>> }

\* what the device may send back when `w` has been written to the link
Device(w) ==
    IF w = WAKE_STR THEN { <<>>, WAKE_ACK }
    ELSE IF w = GETTIME \o LF
    THEN { <<>>, ACK \o pack_datetime(TimeArg).val,
           ACK \o Corrupt(pack_datetime(TimeArg).val) }
    ELSE IF w = EEBRD(ADDR_2D, 1) \/ w = EEBRD(ADDR_14, 3)
    THEN LET size == IF w = EEBRD(ADDR_2D, 1) THEN 1 ELSE 3
         IN  { NACK, ACK \o <<0>> }
                 \cup { ACK \o data_with_checksum(d) : d \in EepromData(size) }
                 \cup { ACK \o Corrupt(data_with_checksum(d)) : d \in EepromData(size) }
    ELSE IF Len(w) = 6 /\ check(w)
    THEN { <<>>, NACK } \cup { ACK \o h : h \in Headers }
    ELSE IF w = ACK THEN PageStreams
    ELSE IF w = NACK THEN { <<>>, DumpPages[1], BadCrcPage, ShortPage }
    ELSE IF w = CANCEL \/ w = ESC THEN { <<>> }
    ELSE IF w = <<1, 2>> THEN { <<>>, ACK, OK }
    ELSE IF w = LOOP_1 \o LF
    THEN { <<>>, ACK \o LoopFrame, ACK \o Corrupt(LoopFrame),
           ACK \o SubSeq(LoopFrame, 1, 50) }
    ELSE IF w = NVER \o LF THEN { <<>>, OK \o VersionText }
    ELSE IF w = RXCHECK \o LF THEN { <<>> } \cup { OK \o d : d \in DiagnosticsTexts }
    ELSE { <<>>, ACK }

(* ---------------------------------------------------------------------- *)
(* The session                                                             *)
(* ---------------------------------------------------------------------- *)
NoAttempt == [fn |-> "none", at |-> "idle", no |-> 0, ev |-> <<>>,
              res |-> "none", val |-> <<>>]
NoOutcome == [err |-> "pending", val |-> <<>>]

\* after construction: the link is open, _check_revision has read and cached
\* firmware_date and set RevA and RevB from it; nothing else is cached
Init ==
    /\ rx \in InitRx
    /\ log = <<>>
    /\ att = NoAttempt
    /\ pc = "idle"
    /\ call = [op |-> "none", a |-> <<>>]
    /\ tries = 0
    /\ val = <<>>
    /\ outcome = NoOutcome
    /\ \E fd \in FirmwareDates :
          /\ cache = [archive_period |-> <<>>, timezone |-> <<>>,
                      firmware_date |-> <<fd>>, firmware_version |-> <<>>,
                      diagnostics |-> <<>>]
          /\ RevA = check_revision(fd).RevA
          /\ RevB = check_revision(fd).RevB

\* the link as a method body finds it
Link == [rx |-> rx, ev |-> <<>>]

\* a call of method op with arguments a begins at pc p
Begin(op, a, p) ==
    /\ pc = "idle"
    /\ call' = [op |-> op, a |-> a]
    /\ pc' = p
    /\ log' = <<>>
    /\ att' = NoAttempt
    /\ tries' = 0
    /\ val' = <<>>
    /\ outcome' = NoOutcome
    /\ UNCHANGED <<rx, cache, RevA, RevB>>

\* where the call goes when the step at pc p has returned
After(p) ==
    CASE p = "gettime:158" -> "gettime:159"
      [] p = "gettime:159" -> "gettime:160"
      [] p = "settime:165" -> "settime:166"
      [] p = "settime:166" -> "settime:167"
      [] p = "get_archives:229" -> "get_archives:235"
      [] p = "get_archives:236" -> "get_archives:239"
      [] p = "get_archives:239" -> "get_archives:240"
      [] p = "get_archives:240" -> "get_archives:249"
      [] p = "get_current_data:171" -> "get_current_data:172"
      [] p = "get_current_data:172" -> "get_current_data:173"
      [] p = "firmware_version:295" -> "firmware_version:296"
      [] p = "firmware_version:296" -> "firmware_version:297"
      [] p = "diagnostics:303" -> "diagnostics:304"
      [] p = "diagnostics:304" -> "diagnostics:305"
      [] p = "archive_period:272" -> "archive_period:unpack"
      [] p = "timezone:277" -> "timezone:278"
      [] p = "archive_period:unpack" ->
            IF call.op = "get_archives" THEN "get_archives:236" ELSE "return"
      [] OTHER -> "return"

\* (results are bound with \E r \in { e }, which is LET r == e evaluated once)
\* the step at pc ends with result r (of one attempt, when the method is
\* retried maxtries times; maxtries is 1 for a plain stretch of code)
Step(name, r, maxtries, next) ==
    LET d == retry(r.err, tries, maxtries)
    IN  /\ rx' = r.rx
        /\ log' = log \o r.ev
        /\ att' = IF name = "" THEN att
                  ELSE [fn |-> name, at |-> pc, no |-> tries + 1, ev |-> r.ev,
                        res |-> r.err, val |-> r.val]
        /\ tries' = IF d = "again" THEN tries + 1 ELSE 0
        /\ val' = r.val
        /\ pc' = IF d = "again" THEN pc
                 ELSE IF d = "raise" \/ next = "return" THEN "done"
                 ELSE next
        /\ outcome' = IF d = "raise" THEN [err |-> r.err, val |-> <<>>]
                      ELSE IF d = "return" /\ next = "return"
                      THEN [err |-> "none", val |-> r.val]
                      ELSE outcome

(* ---- calls ---- *)
CallWakeUp == Begin("wake_up", <<>>, "wake_up:96")

CallSend == \E a \in SendArgs : Begin("send", a, "send:112")

CallReadFromEeprom ==
    \E a \in EepromArgs : Begin("read_from_eeprom", a, "read_from_eeprom:139")

CallReadDumpPage == Begin("_read_dump_page", <<>>, "_read_dump_page:312")

CallGettime == Begin("gettime", <<>>, "gettime:158")

CallSettime == Begin("settime", SettimeArgs, "settime:165")

CallGetArchives ==
    \E a \in GetArchivesArgs : Begin("get_archives", a, "get_archives:229")

CallGetCurrentData ==
    Begin("get_current_data", GetCurrentDataArgs, "get_current_data:171")

PropertyNames ==
    { "archive_period", "timezone", "firmware_date", "firmware_version",
      "diagnostics" }

\* a cached_property the cache holds: the access returns the value held and
\* the property's body does not run
CachedAccess ==
    \E name \in PropertyNames :
        /\ pc = "idle"
        /\ ~IsNone(cache[name])
        /\ call' = [op |-> name, a |-> <<>>]
        /\ pc' = "done"
        /\ log' = <<>>
        /\ att' = NoAttempt
        /\ tries' = 0
        /\ val' = <<>>
        /\ outcome' = [err |-> "none", val |-> cache[name][1]]
        /\ UNCHANGED <<rx, cache, RevA, RevB>>

CallFirmwareVersion ==
    /\ IsNone(cache.firmware_version)
    /\ Begin("firmware_version", <<>>, "firmware_version:295")

CallDiagnostics ==
    /\ IsNone(cache.diagnostics)
    /\ Begin("diagnostics", <<>>, "diagnostics:303")

\* a cached_property is computed when the cache does not hold it
CallArchivePeriod ==
    /\ IsNone(cache.archive_period)
    /\ Begin("archive_period", <<>>, "archive_period:272")

CallTimezone ==
    /\ IsNone(cache.timezone)
    /\ Begin("timezone", <<>>, "timezone:277")

(* ---- the retried methods, wherever they are called ---- *)
WakeUpSites ==
    { "wake_up:96", "gettime:158", "settime:165", "get_archives:229",
      "get_current_data:171", "firmware_version:295", "diagnostics:303" }
SendSites ==
    { "send:112", "gettime:159", "settime:166", "settime:167",
      "get_archives:239", "get_current_data:172", "firmware_version:296",
      "diagnostics:304" }
EepromSites == { "read_from_eeprom:139", "archive_period:272", "timezone:277" }

\* settime sending the packed datetime before the command
SendArgsAt_payload_first(p) ==
    CASE p = "send:112" -> call.a
      [] p = "gettime:159" -> [data |-> Text(GETTIME), wait_ack |-> <<ACK>>]
      [] p = "settime:166" ->
            [data |-> Bytes(pack_datetime(call.a.dtime).val), wait_ack |-> <<ACK>>]
      [] p = "settime:167" -> [data |-> Text(SETTIME), wait_ack |-> <<ACK>>]
      [] p = "get_current_data:172" -> [data |-> Text(LOOP_1), wait_ack |-> <<ACK>>]
      [] p = "firmware_version:296" -> [data |-> Text(NVER), wait_ack |-> <<OK>>]
      [] p = "diagnostics:304" -> [data |-> Text(RXCHECK), wait_ack |-> <<OK>>]
      [] OTHER -> [data |-> Text(DMPAFT), wait_ack |-> <<ACK>>]

\* the arguments of the send at pc p
SendArgsAt(p) ==
    CASE p = "send:112" -> call.a
      [] p = "gettime:159" -> [data |-> Text(GETTIME), wait_ack |-> <<ACK>>]
      [] p = "settime:166" -> [data |-> Text(SETTIME), wait_ack |-> <<ACK>>]
      [] p = "settime:167" ->
            [data |-> Bytes(pack_datetime(call.a.dtime).val), wait_ack |-> <<ACK>>]
      [] p = "get_current_data:172" -> [data |-> Text(LOOP_1), wait_ack |-> <<ACK>>]
      [] p = "firmware_version:296" -> [data |-> Text(NVER), wait_ack |-> <<OK>>]
      [] p = "diagnostics:304" -> [data |-> Text(RXCHECK), wait_ack |-> <<OK>>]
      [] OTHER -> [data |-> Text(DMPAFT), wait_ack |-> <<ACK>>]

\* the arguments of the read_from_eeprom at pc p
EepromArgsAt(p) ==
    CASE p = "read_from_eeprom:139" -> call.a
      [] p = "archive_period:272" -> [hex_address |-> ADDR_2D, size |-> 1]
      [] OTHER -> [hex_address |-> ADDR_14, size |-> 3]

\* the bytes send() puts on the link for data
Written(data) == IF is_bytes(data) THEN data.d ELSE data.d \o LF

WakeUp ==
    /\ pc \in WakeUpSites
    /\ \E reply \in Device(WAKE_STR) :
       \E r \in { wake_up(Link, reply) } :
          Step("wake_up", r, WakeUpTries, After(pc))
    /\ UNCHANGED <<call, cache, RevA, RevB>>

Send ==
    /\ pc \in SendSites
    /\ \E a \in { SendArgsAt(pc) } :
       \E reply \in Device(Written(a.data)) :
       \E r \in { send(Link, a.data, a.wait_ack, reply) } :
          Step("send", r, SendTries, After(pc))
    /\ UNCHANGED <<call, cache, RevA, RevB>>

ReadFromEeprom ==
    /\ pc \in EepromSites
    /\ \E a \in { EepromArgsAt(pc) } :
       \E reply \in Device(EEBRD(a.hex_address, a.size)) :
       \E r \in { read_from_eeprom(Link, a.hex_address, a.size, reply) } :
          Step("read_from_eeprom", r, EepromTries, After(pc))
    /\ UNCHANGED <<call, cache, RevA, RevB>>

ReadDumpPage ==
    /\ pc = "_read_dump_page:312"
    /\ \E reply \in Device(NACK) :
       \E r \in { read_dump_page(Link, reply) } :
          Step("_read_dump_page", r, DumpPageTries, After(pc))
    /\ UNCHANGED <<call, cache, RevA, RevB>>

(* ---- the rest of the public methods ---- *)
\* gettime, lines 160-161
GettimeRead ==
    /\ pc = "gettime:160"
    /\ \E l1 \in { link_read(Link, 8) } :
       \E t \in { unpack_datetime(got(l1)) } :
          Step("", [rx |-> l1.rx, ev |-> l1.ev, err |-> t.err, val |-> t.val],
               1, After(pc))
    /\ UNCHANGED <<call, cache, RevA, RevB>>

\* archive_period, line 272 after read_from_eeprom: unpack, cache, return
ArchivePeriodUnpack ==
    /\ pc = "archive_period:unpack"
    /\ \E p \in { archive_period(val) } :
           /\ Step("", [rx |-> rx, ev |-> <<>>, err |-> p.err, val |-> p.val],
                   1, After(pc))
           /\ cache' = cached_property(cache, "archive_period", p)
    /\ UNCHANGED <<call, RevA, RevB>>

\* timezone, lines 278-282 after read_from_eeprom
TimezoneUnpack ==
    /\ pc = "timezone:278"
    /\ \E z \in { timezone(val) } :
           /\ Step("", [rx |-> rx, ev |-> <<>>, err |-> z.err, val |-> z.val],
                   1, After(pc))
           /\ cache' = cached_property(cache, "timezone", z)
    /\ UNCHANGED <<call, RevA, RevB>>

\* get_current_data, lines 173-177
GetCurrentDataRead ==
    /\ pc = "get_current_data:173"
    /\ \E l1 \in { link_read(Link, LOOP_SIZE) } :
       \E d \in { get_current_data(got(l1), RevB, call.a.now) } :
          Step("", [rx |-> l1.rx, ev |-> l1.ev, err |-> d.err, val |-> d.val],
               1, After(pc))
    /\ UNCHANGED <<call, cache, RevA, RevB>>

\* firmware_version, lines 297-298
FirmwareVersionRead ==
    /\ pc = "firmware_version:297"
    /\ \E l1 \in { link_read(Link, 6) } :
       \E v \in { firmware_version(got(l1)) } :
           /\ Step("", [rx |-> l1.rx, ev |-> l1.ev, err |-> v.err, val |-> v.val],
                   1, After(pc))
           /\ cache' = cached_property(cache, "firmware_version", v)
    /\ UNCHANGED <<call, RevA, RevB>>

\* diagnostics, lines 305-309
DiagnosticsRead ==
    /\ pc = "diagnostics:305"
    /\ \E l1 \in { link_read_all(Link) } :
       \E v \in { diagnostics(got(l1)) } :
           /\ Step("", [rx |-> l1.rx, ev |-> l1.ev, err |-> v.err, val |-> v.val],
                   1, After(pc))
           /\ cache' = cached_property(cache, "diagnostics", v)
    /\ UNCHANGED <<call, RevA, RevB>>

\* _get_archives_generator, line 235: self.archive_period, from the cache
\* or computed by the property
GetArchivesPeriod ==
    /\ pc = "get_archives:235"
    /\ pc' = IF IsNone(cache.archive_period) THEN "archive_period:272"
             ELSE "get_archives:236"
    /\ UNCHANGED <<rx, log, att, call, tries, val, outcome, cache, RevA, RevB>>

\* the default dates, and start_date left as it was given
GetArchivesRound_as_given ==
    /\ pc = "get_archives:236"
    /\ LET start_date == IF IsNone(call.a.start_date) THEN DT(2001, 1, 1, 0, 0, 0)
                         ELSE call.a.start_date[1]
           stop_date == IF IsNone(call.a.stop_date) THEN call.a.now
                        ELSE call.a.stop_date[1]
       IN  /\ Step("", [rx |-> rx, ev |-> <<>>, err |-> "none", val |-> <<>>],
                   1, After(pc))
           /\ call' = [call EXCEPT !.a.start_date = <<start_date>>,
                                   !.a.stop_date = <<stop_date>>]
    /\ UNCHANGED <<cache, RevA, RevB>>

\* lines 231-236: the default dates; start_date rounded down to the period
GetArchivesRound ==
    /\ pc = "get_archives:236"
    /\ LET start_date == IF IsNone(call.a.start_date) THEN DT(2001, 1, 1, 0, 0, 0)
                         ELSE call.a.start_date[1]
           stop_date == IF IsNone(call.a.stop_date) THEN call.a.now
                        ELSE call.a.stop_date[1]
           period == cache.archive_period[1]
       IN  IF period = 0
           THEN /\ Step("", [rx |-> rx, ev |-> <<>>, err |-> "ZeroDivisionError",
                             val |-> <<>>], 1, After(pc))
                /\ UNCHANGED call
           ELSE /\ Step("", [rx |-> rx, ev |-> <<>>, err |-> "none", val |-> <<>>],
                        1, After(pc))
                /\ call' = [call EXCEPT
                      !.a.start_date = << [start_date EXCEPT
                          !.minute = start_date.minute - (start_date.minute % period)] >>,
                      !.a.stop_date = <<stop_date>>]
    /\ UNCHANGED <<cache, RevA, RevB>>

\* lines 240-246
GetArchivesDate ==
    /\ pc = "get_archives:240"
    /\ \E reply \in Device(pack_dmp_date_time(call.a.start_date[1]).val) :
       \E r \in { archives_send_date(Link, call.a.start_date[1], reply) } :
          Step("", r, 1, After(pc))
    /\ UNCHANGED <<call, cache, RevA, RevB>>

\* lines 249-267, and get_archives' loop over what the generator call returned
GetArchivesHeader ==
    /\ pc = "get_archives:249"
    /\ \E cancel_reply \in Device(CANCEL), ack_reply \in Device(ACK) :
       \E g \in { archives_from_header(Link, call.a.start_date[1],
                        call.a.stop_date[1], cancel_reply, ack_reply) } :
       \E r \in { IF g.err # "none" THEN g
                  ELSE get_archives([rx |-> g.rx, ev |-> g.ev], g.val) } :
          Step("", r, 1, "return")
    /\ UNCHANGED <<call, cache, RevA, RevB>>

Next ==
    \/ CallWakeUp \/ CallSend \/ CallReadFromEeprom \/ CallReadDumpPage
    \/ CallGettime \/ CallSettime \/ CallGetArchives
    \/ CallArchivePeriod \/ CallTimezone
    \/ CallGetCurrentData \/ CallFirmwareVersion \/ CallDiagnostics \/ CachedAccess
    \/ GetCurrentDataRead \/ FirmwareVersionRead \/ DiagnosticsRead
    \/ WakeUp \/ Send \/ ReadFromEeprom \/ ReadDumpPage
    \/ GettimeRead \/ ArchivePeriodUnpack \/ TimezoneUnpack
    \/ GetArchivesPeriod \/ GetArchivesRound \/ GetArchivesDate \/ GetArchivesHeader

Spec == Init /\ [][Next]_vars

(* ---- a session of several calls ---- *)
\* the call is over and the caller makes the next one, here when the link
\* holds nothing unread; the cache and the revision flags stay
Again ==
    /\ pc = "done"
    /\ rx = <<>>
    /\ pc' = "idle"
    /\ call' = [op |-> "none", a |-> <<>>]
    /\ log' = <<>>
    /\ att' = NoAttempt
    /\ tries' = 0
    /\ val' = <<>>
    /\ outcome' = NoOutcome
    /\ UNCHANGED <<rx, cache, RevA, RevB>>

\* the cached properties, and gettime and get_archives between them
NextSession ==
    \/ CallArchivePeriod \/ CallTimezone \/ CallFirmwareVersion \/ CallDiagnostics
    \/ CachedAccess \/ CallGettime \/ CallGetArchives
    \/ WakeUp \/ Send \/ ReadFromEeprom \/ GettimeRead
    \/ ArchivePeriodUnpack \/ TimezoneUnpack \/ FirmwareVersionRead \/ DiagnosticsRead
    \/ GetArchivesPeriod \/ GetArchivesRound \/ GetArchivesDate \/ GetArchivesHeader
    \/ Again

SpecSession == Init /\ [][NextSession]_vars

(* ---------------------------------------------------------------------- *)
(* The parser's functions on their own: the input is drawn at the start   *)
(* and one function, or a pack followed by its unpack, is applied to it    *)
(* ---------------------------------------------------------------------- *)
MaxPayload == 4
MaxExtra == 1

\* every sequence of up to MaxPayload bytes out of four
Payloads == UNION { [1..n -> { 0, 1, 128, 255 }] : n \in 0..MaxPayload }

\* the four schemas, header, archive record, LOOP and page: the total width
\* of each and whether it has a "CRC" field
Schemas ==
    { [size |-> DMP_HEADER_SIZE, crc |-> TRUE], [size |-> RECORD_SIZE, crc |-> FALSE],
      [size |-> LOOP_SIZE, crc |-> TRUE], [size |-> DMP_PAGE_SIZE, crc |-> TRUE] }

Fill(n, byte) == [i \in 1..n |-> byte]

\* frames of each schema's width, shorter and longer ones: of one repeated
\* byte, and the frames a console sends, cut short or followed by zeros
Frames ==
    LET SentFrames ==
            { Header(1, 0), RecordAt(StartArg), BlankRecord, LoopFrame,
              Corrupt(LoopFrame), DumpPages[1] }
        Resized(frame, n) ==
            IF n <= Len(frame) THEN SubSeq(frame, 1, n)
            ELSE frame \o Zeros(n - Len(frame))
    IN  { Fill(size + extra, byte) :
            size \in { s.size : s \in Schemas }, extra \in (0 - MaxExtra)..MaxExtra,
            byte \in { 0, 255 } }
        \cup { Resized(frame, Len(frame) + extra) :
                 frame \in SentFrames, extra \in (0 - MaxExtra)..MaxExtra }

\* archive records: dated inside and outside the range asked for, blank,
\* stamped with the sentinel in one field only, and stamped with nonsense
RecordFrames ==
    { RecordAt(StartArg), RecordAt(StopArg), RecordAt(NowArg),
      RecordAt(DT(2023, 6, 15, 11, 30, 0)), BlankRecord,
      Stamped(65535, 1130), Stamped(11983, 65535), Stamped(0, 0),
      Stamped(11983, 2400), Stamped(11983, 1060),
      Fill(RECORD_SIZE, 255), Fill(RECORD_SIZE - 1, 255) }

\* datetimes around the years the two encodings hold, at the ends of the
\* months, days, hours and minutes; and some with a fraction of a second
Datetimes ==
    LET Years == { 1899, 1900, 2000, 2023, 2024, 2127, 2128, 2155, 2156 }
    IN  { t \in { DT(y, mo, d, h, mi, s) :
                    y \in Years, mo \in 1..12, d \in { 1, 15, 28, 29, 30, 31 },
                    h \in { 0, 23 }, mi \in { 0, 59 }, s \in { 0, 30 } } :
            t.day <= DaysIn(t.year, t.month) }
        \cup { [DT(y, 6, 15, 10, 7, 30) EXCEPT !.microsecond = 250000] : y \in Years }

ParserInputs ==
    { [data |-> data, dtime |-> TimeArg, size |-> 0, crc |-> FALSE] :
        data \in Payloads \cup Frames \cup RecordFrames }
    \cup { [data |-> <<>>, dtime |-> dtime, size |-> 0, crc |-> FALSE] :
             dtime \in Datetimes }

InitParser ==
    /\ rx = <<>>
    /\ log = <<>>
    /\ att = NoAttempt
    /\ pc = "idle"
    /\ call \in { [op |-> "none", a |-> a] : a \in ParserInputs }
    /\ tries = 0
    /\ val = <<>>
    /\ outcome = NoOutcome
    /\ cache = [archive_period |-> <<>>, timezone |-> <<>>, firmware_date |-> <<>>,
                firmware_version |-> <<>>, diagnostics |-> <<>>]
    /\ RevA = FALSE
    /\ RevB = FALSE

\* function op is applied to the input; its result r ends the call, or goes
\* to function next when there is one and r is no error
Packed(op, r, next) ==
    /\ pc = "idle"
    /\ call' = [call EXCEPT !.op = op]
    /\ pc' = IF r.err = "none" THEN next ELSE "done"
    /\ val' = r.val
    /\ outcome' = IF r.err = "none" /\ next # "done" THEN outcome
                  ELSE [err |-> r.err, val |-> r.val]
    /\ UNCHANGED <<rx, log, att, tries, cache, RevA, RevB>>

\* the function at pc is applied to val and ends with result r
Unpacked(name, r) ==
    /\ pc = name
    /\ pc' = "done"
    /\ val' = r.val
    /\ outcome' = [err |-> r.err, val |-> r.val]
    /\ UNCHANGED <<rx, log, att, call, tries, cache, RevA, RevB>>

\* VantageProCRC(data): checksum, data_with_checksum and check()
ApplyCrc ==
    /\ pc = "idle"
    /\ \E r \in { [err |-> "none",
                    val |-> [checksum |-> checksum(call.a.data),
                             data_with_checksum |-> data_with_checksum(call.a.data),
                             check |-> check(call.a.data)]] } :
          Packed("VantageProCRC", r, "done")

\* DataParser(data, data_format) for a format of `size` bytes
ApplyDataParser ==
    /\ pc = "idle"
    /\ \E s \in Schemas :
       \E p \in { DataParser(call.a.data, s.size, s.crc) } :
          /\ call' = [op |-> "DataParser",
                      a |-> [call.a EXCEPT !.size = s.size, !.crc = s.crc]]
          /\ pc' = "done"
          /\ val' = <<>>
          /\ outcome' = [err |-> p.err, val |-> p]
          /\ UNCHANGED <<rx, log, att, tries, cache, RevA, RevB>>

ApplyPackDmpDateTime ==
    /\ pc = "idle"
    /\ \E r \in { pack_dmp_date_time(call.a.dtime) } :
          Packed("pack_dmp_date_time", r, "unpack_dmp_date_time")

\* a DateStamp and a TimeStamp as they arrive, 2 bytes each
ApplyStamps ==
    /\ pc = "idle"
    /\ Len(call.a.data) = 4
    /\ Packed("unpack_dmp_date_time", [err |-> "none", val |-> call.a.data],
              "unpack_dmp_date_time")

ApplyUnpackDmpDateTime ==
    /\ pc = "unpack_dmp_date_time"
    /\ \E r \in { unpack_dmp_date_time(unpack_H(SubSeq(val, 1, 2)),
                                       unpack_H(SubSeq(val, 3, 4))) } :
          Unpacked("unpack_dmp_date_time", r)

\* data[0:6] of the packed datetime goes to unpack_datetime
ApplyPackDatetime ==
    /\ pc = "idle"
    /\ \E r \in { pack_datetime(call.a.dtime) } :
          Packed("pack_datetime",
                 [err |-> r.err, val |-> SubSeq(r.val, 1, Min(6, Len(r.val)))],
                 "unpack_datetime")

ApplyUnpackDatetime ==
    /\ pc = "unpack_datetime"
    /\ \E r \in { unpack_datetime(val) } : Unpacked("unpack_datetime", r)

\* a LOOP frame parsed, as get_current_data parses the 99 bytes it has read
ApplyLoopDataParser ==
    /\ pc = "idle"
    /\ Len(call.a.data) \in (LOOP_SIZE - MaxExtra)..(LOOP_SIZE + MaxExtra)
    /\ \E r \in { LoopDataParserRevB(call.a.data, NowArg) } :
          Packed("LoopDataParserRevB", r, "done")

ApplyParseRecord ==
    /\ pc = "idle"
    /\ call.a.data \in RecordFrames
    /\ \E r \in { parse_record(call.a.data, StartArg, StopArg) } :
          Packed("_parse_record", r, "done")

NextParser ==
    \/ ApplyCrc \/ ApplyDataParser
    \/ ApplyPackDmpDateTime \/ ApplyStamps \/ ApplyUnpackDmpDateTime
    \/ ApplyPackDatetime \/ ApplyUnpackDatetime
    \/ ApplyParseRecord \/ ApplyLoopDataParser

SpecParser == InitParser /\ [][NextParser]_vars

(* ---------------------------------------------------------------------- *)
(* Properties                                                              *)
(* ---------------------------------------------------------------------- *)
WritesOf(ev) == SelectSeq(ev, LAMBDA e : e.k = "w")
ReadsOf(ev) == SelectSeq(ev, LAMBDA e : e.k = "r")
IsWrite(e, d) == e.k = "w" /\ e.d = d
IsRead(e, n) == e.k = "r" /\ e.n = n

\* C1: every attempt of wake_up writes one line-feed and then reads 2 bytes;
\* when they are "\n\r" it reads no more, succeeds and is not repeated,
\* otherwise it reads 1 more byte and fails with NoDeviceException.
C1_WakeUpAttempt ==
    att.fn = "wake_up" =>
        /\ Len(att.ev) >= 2
        /\ Len(WritesOf(att.ev)) = 1
        /\ IsWrite(att.ev[1], <<10>>)
        /\ IsRead(att.ev[2], 2)
        /\ IF att.ev[2].d = <<10, 13>>
           THEN /\ Len(att.ev) = 2
                /\ att.res = "none"
                /\ tries = 0
                /\ pc # att.at
           ELSE /\ Len(att.ev) = 3
                /\ IsRead(att.ev[3], 1)
                /\ att.res = "NoDeviceException"

\* an attempt that met a stray byte ahead of the "\n\r" and failed
C1_Witness ==
    /\ att.fn = "wake_up"
    /\ att.res = "NoDeviceException"
    /\ Len(att.ev) = 3
    /\ att.ev[2].d = <<0, 10>>
    /\ att.ev[3].d = <<13>>

\* the attempts of the retried method called, as the link saw them: a page
\* read asks for 267 bytes once per attempt, the others write once per attempt
AttemptsOnLink ==
    IF call.op = "_read_dump_page"
    THEN Len(SelectSeq(log, LAMBDA e : IsRead(e, 267)))
    ELSE Len(WritesOf(log))

Retried == { "wake_up", "send", "read_from_eeprom", "_read_dump_page" }

\* C2: a retried method (wake_up, send, read_from_eeprom, _read_dump_page)
\* called on its own makes exactly 3 attempts when all fail and the caller
\* gets the error of the 3rd; once an attempt succeeds there is no further
\* attempt and the caller gets no error.
C2_RetryBudget ==
    call.op \in Retried =>
        /\ AttemptsOnLink = att.no
        /\ att.no <= 3
        /\ pc = "done" =>
              IF outcome.err = "none" THEN att.res = "none"
              ELSE att.no = 3 /\ att.res # "none" /\ outcome.err = att.res
        /\ pc # "done" => (att.res # "none" \/ att.no = 0) /\ att.no < 3

\* read_from_eeprom failed three times, first on the ack and last on the CRC
C2_Witness ==
    /\ call.op = "read_from_eeprom"
    /\ pc = "done"
    /\ att.no = 3
    /\ outcome.err = "BadCRCException"
    /\ log[2].d = NACK

\* C3: an attempt of send writes the data once (a command with one
\* line-feed appended, a byte array as it is); with an expected ack it then
\* reads exactly that many bytes and fails with BadAckException unless they
\* are the ack; with none it reads nothing and succeeds.
C3_SendAttempt ==
    att.fn = "send" =>
        LET a == SendArgsAt(att.at)
            text == a.data.d \o <<10>>
        IN  /\ Len(att.ev) >= 1
            /\ Len(WritesOf(att.ev)) = 1
            /\ IsWrite(att.ev[1], IF a.data.bytes THEN a.data.d ELSE text)
            /\ IF a.wait_ack = <<>>
               THEN Len(att.ev) = 1 /\ att.res = "none"
               ELSE /\ Len(att.ev) = 2
                    /\ IsRead(att.ev[2], Len(a.wait_ack[1]))
                    /\ att.res = IF att.ev[2].d = a.wait_ack[1] THEN "none"
                                 ELSE "BadAckException"

\* a byte array sent, and an answer that is not the expected ack
C3_Witness ==
    /\ att.fn = "send"
    /\ SendArgsAt(att.at).data.bytes
    /\ Len(att.ev) = 2
    /\ att.ev[2].d # <<>>
    /\ att.res = "BadAckException"

\* C4: an attempt of read_from_eeprom(address, size) writes one EEBRD
\* command and reads one ack byte; an ack other than ACK fails it with
\* BadAckException and nothing more is read; after ACK it reads size+2 bytes
\* and returns the first size bytes of the block when the CRC over all size+2
\* bytes is valid, and fails with BadCRCException otherwise.
C4_EepromAttempt ==
    att.fn = "read_from_eeprom" =>
        LET a == EepromArgsAt(att.at)
        IN  /\ Len(att.ev) >= 2
            /\ Len(WritesOf(att.ev)) = 1
            /\ IsWrite(att.ev[1], EEBRD(a.hex_address, a.size))
            /\ IsRead(att.ev[2], 1)
            /\ IF att.ev[2].d # ACK
               THEN Len(att.ev) = 2 /\ att.res = "BadAckException"
               ELSE /\ Len(att.ev) = 3
                    /\ IsRead(att.ev[3], a.size + 2)
                    /\ LET block == att.ev[3].d
                       IN  IF Len(block) = a.size + 2 /\ checksum(block) = 0
                           THEN /\ att.res = "none"
                                /\ att.val = SubSeq(block, 1, a.size)
                           ELSE att.res = "BadCRCException"

PublicOps ==
    { "gettime", "settime", "get_archives", "timezone", "archive_period",
      "read_from_eeprom" }

\* a wake-up of this call was acknowledged before the event at position i
AwakeBefore(i) ==
    \E j \in 1..(i - 2) :
        /\ IsWrite(log[j], WAKE_STR)
        /\ IsRead(log[j + 1], 2)
        /\ log[j + 1].d = WAKE_ACK

\* C5: in a public operation that talks to the device, every write of
\* anything but the wake-up line-feed comes after a wake-up handshake that
\* succeeded within the same call.
C5_WakeBeforeCommand ==
    call.op \in PublicOps =>
        \A i \in 1..Len(log) :
            (log[i].k = "w" /\ log[i].d # WAKE_STR) => AwakeBefore(i)

(* ---- get_archives, seen from the link ---- *)
HeaderReads == { i \in 1..Len(log) : IsRead(log[i], DMP_HEADER_SIZE) }
HeaderAt == CHOOSE i \in HeaderReads : TRUE
HeaderRead == log[HeaderAt].d
AfterHeader == SubSeq(log, HeaderAt + 1, Len(log))
PageReads == SelectSeq(AfterHeader, LAMBDA e : IsRead(e, DMP_PAGE_SIZE))

\* get_archives is over and had read a whole header
HeaderSeen ==
    /\ call.op = "get_archives"
    /\ pc = "done"
    /\ HeaderReads # {}
    /\ Len(HeaderRead) = DMP_HEADER_SIZE

HeaderValid == HeaderSeen /\ check(HeaderRead)
HeaderPages == unpack_H(SubSeq(HeaderRead, 1, 2))

RECURSIVE Joined(_)
Joined(evs) == IF evs = <<>> THEN <<>> ELSE Head(evs).d \o Joined(Tail(evs))

\* the bytes the device sent after the header: those read and those left
Delivered == Joined(ReadsOf(AfterHeader)) \o rx

\* C6: once get_archives has read the 6-byte header: with an invalid CRC it
\* writes exactly one CANCEL byte and nothing else, fails with
\* BadCRCException and reads no page; with a valid CRC it writes exactly one
\* ACK byte, and that before it reads anything further.
C6_HeaderCrc ==
    HeaderSeen =>
        LET writes == WritesOf(AfterHeader)
        IN  IF ~check(HeaderRead)
            THEN /\ Len(writes) = 1
                 /\ writes[1].d = CANCEL
                 /\ outcome.err = "BadCRCException"
                 /\ PageReads = <<>>
            ELSE /\ Len(SelectSeq(writes, LAMBDA e : e.d = ACK)) = 1
                 /\ IsWrite(AfterHeader[1], ACK)
                 /\ Len(SelectSeq(writes, LAMBDA e : e.d = CANCEL)) = 0

\* a header with a bad CRC was read and the dump cancelled
C6_Witness ==
    /\ HeaderSeen
    /\ ~check(HeaderRead)
    /\ IsWrite(log[Len(log)], CANCEL)
    /\ outcome.err = "BadCRCException"

\* the header was valid and the device sent exactly the pages it announced
PagesArrived == HeaderValid /\ Delivered = PageStream(HeaderPages)

\* C7: with a valid header and every page arriving whole with a valid CRC,
\* get_archives reads exactly header.Pages pages of 267 bytes, in order (the
\* five sub-records of each are cut from the pages so read).
C7_ReadsAllPages ==
    PagesArrived =>
        /\ Len(PageReads) = HeaderPages
        /\ \A i \in 1..Len(PageReads) : PageReads[i].d = DumpPages[i]

\* C8: when the first page fails on every attempt (it came short, or with a
\* bad CRC, and the device sent nothing more), get_archives writes one ESC
\* byte, reads no page after it, and returns the records accepted so far
\* (none) without raising an error.
C8_PageFailure ==
    (HeaderValid /\ HeaderPages >= 1 /\ Delivered \in { ShortPage, BadCrcPage }) =>
        /\ Len(PageReads) = 3
        /\ Len(SelectSeq(AfterHeader, LAMBDA e : IsWrite(e, ESC))) = 1
        /\ IsWrite(log[Len(log)], ESC)
        /\ outcome.err = "none"
        /\ outcome.val = <<>>

\* the sub-records of the pages announced, in download order
SubRecords ==
    [k \in 1..(5 * HeaderPages) |->
        LET page == DumpPages[((k - 1) \div 5) + 1]
            first == 2 + RECORD_SIZE * ((k - 1) % 5)
        IN  SubSeq(page, first, first + RECORD_SIZE - 1)]

StartGiven ==
    IF IsNone(call.a.start_arg) THEN DT(2001, 1, 1, 0, 0, 0) ELSE call.a.start_arg[1]
StopGiven ==
    IF IsNone(call.a.stop_arg) THEN call.a.now ELSE call.a.stop_arg[1]

DatetimeOf(raw) == ArchiveDataParserRevB(raw).Datetime

\* the sub-record is dated within (start, stop]
InRange(raw) ==
    /\ ~IsNone(DatetimeOf(raw))
    /\ DtLt(StartGiven, DatetimeOf(raw)[1])
    /\ DtLe(DatetimeOf(raw)[1], StopGiven)

\* C9: get_archives(start, stop) returns records of exactly the Datetimes of
\* the sub-records received that have a Datetime with start < Datetime <=
\* stop.
C9_Filter ==
    (PagesArrived /\ HeaderPages >= 1) =>
        /\ outcome.err = "none"
        /\ { outcome.val[i].Datetime : i \in 1..Len(outcome.val) }
              = { DatetimeOf(SubRecords[k]) :
                    k \in { n \in 1..(5 * HeaderPages) : InRange(SubRecords[n]) } }

\* the first sub-record in download order that is in range and dated dt
FirstDated(dt) ==
    SubRecords[CHOOSE k \in 1..(5 * HeaderPages) :
        /\ InRange(SubRecords[k]) /\ DatetimeOf(SubRecords[k]) = dt
        /\ \A n \in 1..(k - 1) :
              ~(InRange(SubRecords[n]) /\ DatetimeOf(SubRecords[n]) = dt)]

\* C10: what get_archives returns holds one record per Datetime, the first
\* received of that Datetime, and is sorted strictly ascending by Datetime.
C10_DedupSorted ==
    (PagesArrived /\ HeaderPages >= 1) =>
        /\ outcome.err = "none"
        /\ \A i, j \in 1..Len(outcome.val) :
              i < j => DtLt(outcome.val[i].Datetime[1], outcome.val[j].Datetime[1])
        /\ \A i \in 1..Len(outcome.val) :
              outcome.val[i].raw_bytes = FirstDated(outcome.val[i].Datetime)

\* C11: once the cache holds a property (firmware_date, firmware_version,
\* diagnostics, timezone, archive_period) the value held never changes; an
\* access then ends at once with that value and leaves the link untouched
\* (also the access get_archives makes to archive_period), whatever calls
\* came in between; a property gets into the cache only by a step of its own
\* evaluation that ends without error, and a call that ends with an error
\* leaves the cache as it was.
C11_CachedOnce ==
    [][\A name \in PropertyNames :
          /\ ~IsNone(cache[name]) =>
                /\ cache'[name] = cache[name]
                /\ (pc = "idle" /\ call'.op = name) =>
                      /\ pc' = "done"
                      /\ log' = <<>>
                      /\ rx' = rx
                      /\ outcome' = [err |-> "none", val |-> cache[name][1]]
                /\ (pc = "get_archives:235" /\ name = "archive_period") =>
                      pc' = "get_archives:236" /\ log' = log /\ rx' = rx
          /\ (pc # "done" /\ pc' = "done" /\ outcome'.err # "none") =>
                cache'[name] = cache[name]
          /\ (IsNone(cache[name]) /\ ~IsNone(cache'[name])) =>
                /\ call.op = name \/ (call.op = "get_archives" /\ name = "archive_period")
                /\ outcome'.err \in { "none", "pending" }
                /\ cache'[name] = <<val'>>
      ]_vars

\* timezone was evaluated in an earlier call of the session, and a later
\* access got the value held without touching the link
C11_Witness ==
    /\ call.op = "timezone"
    /\ pc = "done"
    /\ log = <<>>
    /\ ~IsNone(cache.timezone)
    /\ ~IsNone(cache.archive_period)
    /\ outcome = [err |-> "none", val |-> cache.timezone[1]]

LoopReads == { i \in 1..Len(log) : IsRead(log[i], LOOP_SIZE) }

\* C12: get_current_data reads 99 bytes at most once, as the last thing it
\* does on the link, right after "LOOP 1" was written and answered by ACK,
\* which in turn comes after the wake-up that was acknowledged; it returns
\* only with RevB set, and then the snapshot of the bytes read, stamped with
\* the capture time; with RevB not set it fails with NotImplementedError
\* (the code's UnsupportedFormatError) and returns nothing.
C12_GetCurrentData ==
    (call.op = "get_current_data" /\ pc = "done") =>
        /\ Cardinality(LoopReads) <= 1
        /\ outcome.err = "none" => LoopReads # {} /\ RevB
        /\ ~RevB => outcome.err # "none" /\ outcome.val = <<>>
        /\ \A i \in LoopReads :
              /\ i = Len(log)
              /\ i > 4
              /\ IsRead(log[i - 1], 1) /\ log[i - 1].d = ACK
              /\ IsWrite(log[i - 2], LOOP_1 \o LF)
              /\ \E j \in 1..(i - 4) :
                    /\ IsWrite(log[j], WAKE_STR)
                    /\ IsRead(log[j + 1], 2) /\ log[j + 1].d = WAKE_ACK
                    /\ \A k \in 1..j : ~IsWrite(log[k], LOOP_1 \o LF)
                    /\ \A k \in (j + 1)..i : ~IsWrite(log[k], WAKE_STR)
              /\ ~RevB => outcome.err = "NotImplementedError"
              /\ outcome.err = "none" =>
                    /\ outcome.val.raw_bytes = log[i].d
                    /\ Len(log[i].d) = LOOP_SIZE
                    /\ outcome.val.Datetime = <<call.a.now>>
                    /\ outcome.val.Barometer =
                          <<log[i].d[8] + 256 * log[i].d[9], 1000>>

\* a snapshot returned after the "LOOP 1" had to be sent twice
C12_Witness ==
    /\ call.op = "get_current_data"
    /\ pc = "done"
    /\ outcome.err = "none"
    /\ outcome.val.Barometer = <<30000, 1000>>
    /\ Len(SelectSeq(log, LAMBDA e : IsWrite(e, LOOP_1 \o LF))) = 2

\* C13: throughout a session exactly one of RevA and RevB is set: RevB when
\* firmware_date is 2002-04-24 or later, RevA when it is earlier.
C13_Revision ==
    /\ ~IsNone(cache.firmware_date)
    /\ LET d == cache.firmware_date[1]
           on_or_after == d[1] * 10000 + d[2] * 100 + d[3] >= 20020424
       IN  /\ RevB = on_or_after
           /\ RevA = ~on_or_after
           /\ RevA # RevB

\* a session of the cutoff date, after a call that has used the link
C13_Witness ==
    /\ cache.firmware_date = << <<2002, 4, 24>> >>
    /\ RevB /\ ~RevA
    /\ pc = "done"
    /\ log # <<>>

\* C14: decoding a frame against a schema fails with BadDataException
\* whenever the frame's length differs from the schema's width, shorter or
\* longer, and never fails when the length is the width.
C14_DecodeLength ==
    (call.op = "DataParser" /\ pc = "done") =>
        IF Len(call.a.data) # call.a.size
        THEN outcome.err = "BadDataException"
        ELSE outcome.err = "none"

\* C15: for every payload the checksum of the payload followed by its
\* checksum, high byte first, is 0, so check() accepts data_with_checksum;
\* the checksum of the empty sequence is 0 and yet check() rejects it.
C15_ChecksumResidue ==
    (call.op = "VantageProCRC" /\ pc = "done") =>
        /\ checksum(outcome.val.data_with_checksum) = 0
        /\ check(outcome.val.data_with_checksum)
        /\ call.a.data = <<>> => (outcome.val.checksum = 0 /\ ~outcome.val.check)

\* a payload that is not valid by itself has been framed
C15_Witness ==
    /\ call.op = "VantageProCRC"
    /\ pc = "done"
    /\ call.a.data = << 1, 128, 255 >>
    /\ outcome.val.checksum > 255
    /\ ~outcome.val.check
    /\ check(outcome.val.data_with_checksum)

\* C16: a datetime of the years 2000..2127 with whole minutes is packed as
\* date = day + month*32 + (year-2000)*512 and time = hour*100 + minute, and
\* unpack_dmp_date_time of these two values gives the datetime back.
C16_BitpackedRoundTrip ==
    (/\ call.op = "pack_dmp_date_time"
     /\ call.a.dtime.year \in 2000..2127
     /\ call.a.dtime.second = 0
     /\ call.a.dtime.microsecond = 0)
    => /\ pc = "unpack_dmp_date_time" =>
            /\ unpack_H(SubSeq(val, 1, 2))
                  = call.a.dtime.day + call.a.dtime.month * 32
                      + (call.a.dtime.year - 2000) * 512
            /\ unpack_H(SubSeq(val, 3, 4))
                  = call.a.dtime.hour * 100 + call.a.dtime.minute
       /\ pc = "done" => outcome = [err |-> "none", val |-> << call.a.dtime >>]

\* the last minute of 2127 has come back
C16_Witness ==
    /\ call.op = "pack_dmp_date_time"
    /\ pc = "done"
    /\ call.a.dtime = DT(2127, 12, 31, 23, 59, 0)
    /\ outcome = [err |-> "none", val |-> << DT(2127, 12, 31, 23, 59, 0) >>]

\* C17 as stated: for any datetime dt, unpack_datetime of the first 6 bytes
\* of pack_datetime(dt) returns a datetime equal to dt.
C17_ExplicitRoundTripAny ==
    (call.op = "pack_datetime" /\ pc = "done")
    => outcome = [err |-> "none", val |-> << call.a.dtime >>]

\* C17, amended: for any datetime dt of the years 1900..2155 with whole
\* seconds, unpack_datetime of the first 6 bytes of pack_datetime(dt)
\* returns a datetime equal to dt.
C17_ExplicitRoundTrip ==
    (/\ call.op = "pack_datetime"
     /\ pc = "done"
     /\ call.a.dtime.year \in 1900..2155
     /\ call.a.dtime.microsecond = 0)
    => outcome = [err |-> "none", val |-> << call.a.dtime >>]

\* the last half minute of 2155 has come back
C17_Witness ==
    /\ call.op = "pack_datetime"
    /\ pc = "done"
    /\ call.a.dtime = DT(2155, 12, 31, 23, 59, 30)
    /\ outcome = [err |-> "none", val |-> << DT(2155, 12, 31, 23, 59, 30) >>]

\* the DateStamp and the TimeStamp that lead a frame
DateStampOf(data) == unpack_H(SubSeq(data, 1, 2))
TimeStampOf(data) == unpack_H(SubSeq(data, 3, 4))
Sentinel(data) == DateStampOf(data) = 65535 \/ TimeStampOf(data) = 65535

\* C18: unpack_dmp_date_time returns None whenever the date is 0xFFFF,
\* whatever the time, and whenever the time is 0xFFFF; an archive record
\* stamped so has no Datetime and _parse_record returns None for it, so
\* that it is in no result of get_archives.
C18_Sentinel ==
    /\ (/\ call.op = "unpack_dmp_date_time"
        /\ pc = "done"
        /\ Sentinel(call.a.data))
       => outcome = [err |-> "none", val |-> <<>>]
    /\ (/\ call.op = "_parse_record"
        /\ pc = "done"
        /\ Len(call.a.data) = RECORD_SIZE
        /\ Sentinel(call.a.data))
       => /\ ArchiveDataParserRevB(call.a.data).Datetime = <<>>
          /\ outcome = [err |-> "none", val |-> <<>>]

\* a record with a date and the sentinel for its time has been refused
C18_Witness ==
    /\ call.op = "_parse_record"
    /\ pc = "done"
    /\ call.a.data = Stamped(11983, 65535)
    /\ outcome = [err |-> "none", val |-> <<>>]

\* C19 as stated: pack_dmp_date_time of a datetime of day 15, month 6,
\* year 2023 gives the raw date 11999.
C19_PackedDate11999 ==
    (/\ call.op = "pack_dmp_date_time"
     /\ pc = "unpack_dmp_date_time"
     /\ call.a.dtime.day = 15
     /\ call.a.dtime.month = 6
     /\ call.a.dtime.year = 2023)
    => DateStampOf(val) = 11999

\* C19, amended: pack_dmp_date_time of a datetime of day 15, month 6,
\* year 2023 gives the raw date 15 + 6*32 + 23*512, which is 11983.
C19_PackedDate ==
    (/\ call.op = "pack_dmp_date_time"
     /\ pc = "unpack_dmp_date_time"
     /\ call.a.dtime.day = 15
     /\ call.a.dtime.month = 6
     /\ call.a.dtime.year = 2023)
    => /\ DateStampOf(val) = 15 + 6 * 32 + 23 * 512
       /\ DateStampOf(val) = 11983

\* 15 June 2023, 23:59 has been packed: the date's bytes are 207 and 46
C19_Witness ==
    /\ call.op = "pack_dmp_date_time"
    /\ pc = "unpack_dmp_date_time"
    /\ call.a.dtime = DT(2023, 6, 15, 23, 59, 0)
    /\ SubSeq(val, 1, 4) = << 207, 46, 55, 9 >>

\* the writes of a packed date: 4 bytes and their CRC
DateWrites ==
    { i \in 1..Len(log) : log[i].k = "w" /\ Len(log[i].d) = 6 /\ check(log[i].d) }

\* C20: get_archives keeps one order: a wake-up that succeeded, "DMPAFT"
\* sent and answered with ACK, the packed start date written once, one byte
\* read; the 6-byte header is read only when that byte is ACK, otherwise
\* the call ends with BadAckException and nothing more is read or written:
\* no header, no second date, no ACK, CANCEL or ESC.
C20_Handshake ==
    call.op = "get_archives" =>
        /\ Cardinality(DateWrites) <= 1
        /\ \A i \in 1..Len(log) : IsWrite(log[i], DMPAFT \o LF) => AwakeBefore(i)
        /\ \A i \in DateWrites :
              /\ log[i].d = pack_dmp_date_time(call.a.start_date[1]).val
              /\ i >= 3
              /\ IsWrite(log[i - 2], DMPAFT \o LF)
              /\ IsRead(log[i - 1], 1)
              /\ log[i - 1].d = ACK
              /\ i < Len(log)
              /\ IsRead(log[i + 1], 1)
              /\ log[i + 1].d # ACK =>
                    /\ Len(log) = i + 1
                    /\ pc = "done"
                    /\ outcome.err = "BadAckException"
        /\ \A j \in HeaderReads :
              /\ j >= 3
              /\ (j - 2) \in DateWrites
              /\ IsRead(log[j - 1], 1)
              /\ log[j - 1].d = ACK

\* the start date was answered with NACK and the call has ended
C20_Witness ==
    /\ call.op = "get_archives"
    /\ pc = "done"
    /\ outcome.err = "BadAckException"
    /\ DateWrites # {}
    /\ log[Len(log)].d = NACK
    /\ HeaderReads = {}

\* the NACK bytes written during the call
NacksWritten == Len(SelectSeq(log, LAMBDA e : IsWrite(e, NACK)))

\* the attempts of the call that have failed
FailedAttempts == IF att.res = "none" THEN att.no - 1 ELSE att.no

\* C21: every attempt of _read_dump_page reads up to 267 bytes; fewer than
\* 267 bytes are answered with one NACK and BadDataException, unparsed;
\* 267 bytes with a bad CRC with one NACK and BadCRCException; 267 bytes
\* with a good CRC are returned and no NACK is written.  So the NACKs
\* written for a page are as many as the failed attempts, 3 at most.
C21_PageAttempt ==
    (call.op = "_read_dump_page" /\ att.fn = "_read_dump_page") =>
        /\ Len(att.ev) >= 1
        /\ IsRead(att.ev[1], DMP_PAGE_SIZE)
        /\ Len(att.ev[1].d) <= DMP_PAGE_SIZE
        /\ Len(att.ev[1].d) < DMP_PAGE_SIZE =>
              /\ att.res = "BadDataException"
              /\ Len(att.ev) = 2 /\ IsWrite(att.ev[2], NACK)
        /\ (Len(att.ev[1].d) = DMP_PAGE_SIZE /\ ~check(att.ev[1].d)) =>
              /\ att.res = "BadCRCException"
              /\ Len(att.ev) = 2 /\ IsWrite(att.ev[2], NACK)
        /\ (Len(att.ev[1].d) = DMP_PAGE_SIZE /\ check(att.ev[1].d)) =>
              /\ att.res = "none"
              /\ Len(att.ev) = 1
              /\ att.val.raw_bytes = att.ev[1].d
              /\ att.val.Records = SubSeq(att.ev[1].d, 2, 1 + RECORDS_SIZE)
        /\ NacksWritten = FailedAttempts
        /\ NacksWritten <= 3

\* a short read, then a page with a bad CRC, then a good page: two NACKs
C21_Witness ==
    /\ call.op = "_read_dump_page"
    /\ pc = "done"
    /\ outcome.err = "none"
    /\ att.no = 3
    /\ Len(log) = 5
    /\ Len(log[1].d) < DMP_PAGE_SIZE
    /\ log[3].d = BadCrcPage
    /\ log[5].d = DumpPages[1]
    /\ NacksWritten = 2

\* the datetime that a packed date encodes
DateSent(d) == unpack_dmp_date_time(DateStampOf(d), TimeStampOf(d)).val[1]

\* in get_archives the date sent is the start asked for, rounded down to
\* the archive period: of the same hour, its minute a multiple of the
\* period, not later than the start asked for and less than a period earlier
SentRounded ==
    call.op = "get_archives" =>
        \A i \in DateWrites :
        \A sent \in { DateSent(log[i].d) } :
            /\ ~IsNone(cache.archive_period)
            /\ sent.minute % cache.archive_period[1] = 0
            /\ sent.second = 0
            /\ DtLe(sent, StartGiven)
            /\ [sent EXCEPT !.minute = 0]
                  = [StartGiven EXCEPT !.minute = 0, !.second = 0]
            /\ StartGiven.minute - sent.minute < cache.archive_period[1]

\* what a step adds to the events of the call
NewEvents ==
    IF Len(log') >= Len(log) /\ SubSeq(log', 1, Len(log)) = log
    THEN SubSeq(log', Len(log) + 1, Len(log'))
    ELSE log'

\* C22: the start date that get_archives sends is the start asked for (the
\* default epoch when none is given) rounded down to the archive period; the
\* period, once read from the EEPROM, is kept for the session: it is not
\* read again and later calls of get_archives round by it.
C22_RoundedStart ==
    /\ []SentRounded
    /\ [][~IsNone(cache.archive_period) =>
             /\ cache'.archive_period = cache.archive_period
             /\ \A i \in 1..Len(NewEvents) :
                   ~IsWrite(NewEvents[i], EEBRD(ADDR_2D, 1))]_vars

\* a second get_archives, the period held from an earlier call: 10:07 was
\* asked for and 10:05 is sent without any reading of the EEPROM
C22_Witness ==
    /\ call.op = "get_archives"
    /\ StartGiven = StartArg
    /\ \E i \in DateWrites : DateSent(log[i].d) = DT(2023, 6, 15, 10, 5, 0)
    /\ \A i \in 1..Len(log) : ~IsWrite(log[i], EEBRD(ADDR_2D, 1))

\* C23: a decoded record of a schema with a "CRC" field has crc_error true
\* exactly when the whole frame is empty or its checksum is not 0, and is
\* decoded all the same; of a schema without one crc_error is false for
\* every frame.  So a LOOP frame with a bad CRC is decoded and returned.
C23_CrcError ==
    /\ (call.op = "DataParser" /\ pc = "done") =>
          /\ Len(call.a.data) >= call.a.size => outcome.err = "none"
          /\ outcome.err = "none" =>
                /\ call.a.crc =>
                      (outcome.val.crc_error
                          <=> (call.a.data = <<>> \/ checksum(call.a.data) # 0))
                /\ ~call.a.crc => ~outcome.val.crc_error
    /\ (call.op = "_parse_record" /\ pc = "done" /\ outcome.val # <<>>) =>
          ~outcome.val[1].crc_error
    /\ (call.op = "LoopDataParserRevB" /\ pc = "done"
            /\ Len(call.a.data) >= LOOP_SIZE) =>
          /\ outcome.err = "none"
          /\ outcome.val.raw_bytes = call.a.data
          /\ outcome.val.crc_error
                <=> (call.a.data = <<>> \/ checksum(call.a.data) # 0)

\* a LOOP frame whose CRC is bad has been parsed: the readings are there
C23_Witness ==
    /\ call.op = "LoopDataParserRevB"
    /\ pc = "done"
    /\ call.a.data = Corrupt(LoopFrame)
    /\ outcome.err = "none"
    /\ outcome.val.crc_error
    /\ outcome.val.Barometer = << 30000, 1000 >>

\* n answers of the console to a line-feed
RECURSIVE WakeAcks(_)
WakeAcks(n) == IF n = 0 THEN <<>> ELSE WAKE_ACK \o WakeAcks(n - 1)

\* wake_up found one stray byte on the link and the console has answered
\* every line-feed with CR-LF
DriftByOne ==
    /\ call.op = "wake_up"
    /\ log # <<>>
    /\ Joined(ReadsOf(log)) \o rx = << 0 >> \o WakeAcks(Len(WritesOf(log)))

\* C24: when the link holds one stray byte as wake_up starts and the
\* console answers every line-feed with CR-LF, the first attempt fails
\* having taken 3 bytes off the link, the stray one and the CR-LF, the
\* second succeeds and leaves the link empty; there is no third attempt.
C24_Resync ==
    DriftByOne =>
        /\ att.no \in { 1, 2 }
        /\ rx = <<>>
        /\ att.no = 1 =>
              /\ att.res = "NoDeviceException"
              /\ Joined(ReadsOf(att.ev)) = << 0 >> \o WAKE_ACK
              /\ pc # "done"
        /\ att.no = 2 =>
              /\ att.res = "none"
              /\ att.ev = << Ev("w", 1, WAKE_STR), Ev("r", 2, WAKE_ACK) >>
              /\ pc = "done"
              /\ outcome.err = "none"

\* the second attempt has succeeded after the drift
C24_Witness ==
    /\ DriftByOne
    /\ pc = "done"
    /\ att.no = 2
    /\ outcome.err = "none"
    /\ Len(log) = 5
    /\ rx = <<>>

\* in settime: the writes of the packed datetime, 6 bytes and their CRC,
\* and the writes of the command that the console answered with ACK
PayloadWrites ==
    { i \in 1..Len(log) : IsWrite(log[i], pack_datetime(call.a.dtime).val) }
SettimeAcked ==
    { j \in 1..(Len(log) - 1) :
        /\ IsWrite(log[j], SETTIME \o LF)
        /\ IsRead(log[j + 1], 1)
        /\ log[j + 1].d = ACK }

\* C25: settime writes the packed datetime, 8 bytes, only after a wake-up
\* that succeeded and after "SETTIME" was answered with ACK; when "SETTIME"
\* is not answered with ACK in 3 attempts the packed datetime is never
\* written; and it is written once in every attempt of its own send, 3
\* times at most.
C25_SettimePayload ==
    call.op = "settime" =>
        /\ Len(pack_datetime(call.a.dtime).val) = 8
        /\ \A i \in PayloadWrites :
              /\ AwakeBefore(i)
              /\ \E j \in SettimeAcked : j < i
              /\ att.at = "settime:167"
              /\ i < Len(log) /\ IsRead(log[i + 1], 1)
        /\ (pc = "done" /\ SettimeAcked = {}) =>
              /\ PayloadWrites = {}
              /\ outcome.err # "none"
        /\ (att.at = "settime:166" /\ att.no = 3 /\ att.res # "none") =>
              /\ pc = "done"
              /\ outcome.err = "BadAckException"
              /\ PayloadWrites = {}
        /\ att.at = "settime:167" =>
              /\ Cardinality(PayloadWrites) = att.no
              /\ att.no <= 3
              /\ Len(WritesOf(att.ev)) = 1
        /\ (pc = "done" /\ outcome.err = "none") =>
              \E i \in PayloadWrites : log[i + 1].d = ACK

\* the packed datetime was written three times and never answered
C25_Witness ==
    /\ call.op = "settime"
    /\ pc = "done"
    /\ att.at = "settime:167"
    /\ Cardinality(PayloadWrites) = 3
    /\ outcome.err = "BadAckException"

\* C26: parsing a 52-byte archive sub-record never fails; its Datetime is
\* absent or a valid calendar datetime, so a slot whose stamps are not the
\* sentinel but encode month 0, day 0, an hour above 23 or a minute above
\* 59 is skipped and nothing is raised to the caller.
C26_RecordNeverFails ==
    (/\ call.op = "_parse_record"
     /\ pc = "done"
     /\ Len(call.a.data) = RECORD_SIZE)
    => /\ outcome.err = "none"
       /\ \E r \in { ArchiveDataParserRevB(call.a.data) } :
             /\ r.err = "none"
             /\ \/ IsNone(r.Datetime)
                \/ \E t \in { r.Datetime[1] } :
                      ValidDatetime(t.year, t.month, t.day, t.hour, t.minute, t.second)

====
